---- MODULE Spec2Model ----
(***************************************************************************)
(* Order lifecycle of the ByteBistro REST API (api/views.py,               *)
(* api/serializers.py): the cart, order placement, the single-order        *)
(* handlers and the permission checks in front of them.                    *)
(*                                                                         *)
(* The state is the database.  Every query of a handler is atomic (Django  *)
(* autocommit; views.py never opens a transaction).  OrdersView.post       *)
(* issues several queries, so it is a request that advances in steps and   *)
(* may interleave with other handlers; the other handlers decide on one    *)
(* read and write once, and are single steps.  The status code a handler   *)
(* answers with is a function of the state and the request, given by the   *)
(* ..._status operators; a handler that answers with an error writes       *)
(* nothing.  Money is counted in integer units.                            *)
(***************************************************************************)
EXTENDS Integers, FiniteSets, Sequences, Bags, TLC

\* ---------------------------------------------------------------- bounds
MaxOrders == 2
MaxSeqOrders == 1
MaxAccessOrders == 2
MaxReqs == 2

MenuIds == {1, 2}
Prices == {1, 2}
Quantities == {1, 2}
OrderIds == 1..(MaxAccessOrders + 1)
ReqIds == 1..MaxReqs

\* ----------------------------------------------------------------- users
Users == {"c1", "c2", "d1", "m1", "a1"}
Null == "null"

\* group membership and flags of the django.contrib.auth users
Groups(u) ==
    IF u = "m1" THEN {"Manager"}
    ELSE IF u = "d1" THEN {"Delivery Crew"}
    ELSE {}

is_staff(u) == u = "a1"

is_superuser(u) == u = "a1"

IsManager(u) == "Manager" \in Groups(u)

IsDeliveryCrew(u) == "Delivery Crew" \in Groups(u)

IsAdminUser(u) == is_staff(u)

IsAuthenticated(u) == u \in Users

\* ----------------------------------------------------------------- state
VARIABLES
    menu,        \* MenuItem table: id -> price, for the ids that exist
    cart,        \* Cart table: bag of rows
    orders,      \* Order table: id -> row, for the ids that exist
    nextOrderId, \* next primary key of Order
    orderitems,  \* OrderItem table: bag of rows
    reqs         \* OrdersView.post requests in flight

vars == <<menu, cart, orders, nextOrderId, orderitems, reqs>>

IdleReq == [pc |-> "idle", user |-> Null, order |-> 0,
            values |-> EmptyBag, made |-> EmptyBag]

Init ==
    /\ menu = [m \in MenuIds |-> 1]
    /\ cart = EmptyBag
    /\ orders = << >>
    /\ nextOrderId = 1
    /\ orderitems = EmptyBag
    /\ reqs = [r \in ReqIds |-> IdleReq]

\* --------------------------------------------------------------- helpers
\* the rows of a table that satisfy Keep, with their multiplicities
KeepRows(bag, Keep(_)) ==
    [row \in {x \in DOMAIN bag : Keep(x)} |-> bag[row]]

One(row) == SetToBag({row})

\* Cart.objects.filter(user=u), over a given Cart table
CartFilter(rows, u) ==
    LET OfUser(row) == row.user = u IN KeepRows(rows, OfUser)

CartOf(u) == CartFilter(cart, u)

\* the delete without its filter: Cart.objects.all().delete()
CartWithout_all(rows, u) == EmptyBag

\* Cart.objects.filter(user=u).delete(): the rows that stay
CartWithout(rows, u) ==
    LET Other(row) == row.user # u IN KeepRows(rows, Other)

\* OrderItem.objects.filter(order_id=pk), over a given OrderItem table
ItemFilter(rows, pk) ==
    LET OfOrder(row) == row.order = pk IN KeepRows(rows, OfOrder)

ItemsOf(pk) == ItemFilter(orderitems, pk)

\* ------------------------------------------------------------- menu items
\* SingleItemView PUT (UpdateModelMixin): IsAuthenticated is all it asks
SingleItemView_update(u, m, p) ==
    /\ m \in DOMAIN menu
    /\ IsAuthenticated(u)
    /\ menu' = [menu EXCEPT ![m] = p]
    /\ UNCHANGED <<cart, orders, nextOrderId, orderitems, reqs>>

\* rows that reference a MenuItem go with it when it is deleted
MenuItemCascade(m) ==
    LET Other(row) == row.menuitem # m
    IN /\ cart' = KeepRows(cart, Other)
       /\ orderitems' = KeepRows(orderitems, Other)

\* SingleItemView.get_permissions
SingleItemView_get_permissions(u, method) ==
    IF method = "DELETE" THEN IsAuthenticated(u) /\ IsAdminUser(u)
    ELSE IF method = "PATCH"
    THEN IsAuthenticated(u) /\ (IsManager(u) \/ IsAdminUser(u))
    ELSE IsAuthenticated(u)

\* SingleItemView DELETE (DestroyModelMixin)
SingleItemView_destroy(u, m) ==
    /\ m \in DOMAIN menu
    /\ IF SingleItemView_get_permissions(u, "DELETE")
       THEN /\ menu' = [x \in DOMAIN menu \ {m} |-> menu[x]]
            /\ MenuItemCascade(m)
       ELSE UNCHANGED <<menu, cart, orderitems>>
    /\ UNCHANGED <<orders, nextOrderId, reqs>>

\* ------------------------------------------------------------------- cart
\* a Cart table without the constraint
CartUniqueTogether_none(rows, u, m) == TRUE

\* the Cart table accepts a row only if no row has its (user, menuitem)
CartUniqueTogether(rows, u, m) ==
    ~ \E l \in DOMAIN rows : l.user = u /\ l.menuitem = m

\* Cart.objects.create inside try/except: a refused row leaves the table
CartCreate(rows, row) ==
    IF CartUniqueTogether(rows, row.user, row.menuitem)
    THEN rows (+) One(row)
    ELSE rows

\* the row Customer_Cart.post builds
CartRow(u, m, q) ==
    LET price == q * menu[m]
    IN [user |-> u, menuitem |-> m, quantity |-> q,
        unit_price |-> menu[m], price |-> price]

\* the status Customer_Cart.post answers with
Customer_Cart_post_status(u, m, q) ==
    IF m \notin DOMAIN menu THEN 400
    ELSE IF CartCreate(cart, CartRow(u, m, q)) = cart THEN 200
    ELSE 201

\* Customer_Cart.post
Customer_Cart_post(u, m, q) ==
    /\ IF m \notin DOMAIN menu
       THEN UNCHANGED cart
       ELSE cart' = CartCreate(cart, CartRow(u, m, q))
    /\ UNCHANGED <<menu, orders, nextOrderId, orderitems, reqs>>

\* get_object_or_404(Cart, user=u, menuitem=m)
CartGet(u, m) ==
    LET Match(row) == row.user = u /\ row.menuitem = m
    IN KeepRows(cart, Match)

\* the status Customer_Cart.delete answers with
Customer_Cart_delete_status(u, m) ==
    IF m = 0 THEN 201
    ELSE IF BagCardinality(CartGet(u, m)) = 0 THEN 404
    ELSE IF BagCardinality(CartGet(u, m)) > 1 THEN 500
    ELSE 200

\* Customer_Cart.delete; m = 0 stands for a request without 'menuitem'
Customer_Cart_delete(u, m) ==
    /\ IF m = 0
       THEN cart' = CartWithout(cart, u)
       ELSE IF Customer_Cart_delete_status(u, m) = 200
       THEN cart' = cart (-) CartGet(u, m)
       ELSE UNCHANGED cart
    /\ UNCHANGED <<menu, orders, nextOrderId, orderitems, reqs>>

\* ----------------------------------------------------------------- orders
\* calculate_total with 'total = item.price' for 'total += item.price'
calculate_total_overwrite(cart_items) ==
    IF DOMAIN cart_items = {} THEN 0
    ELSE (CHOOSE x \in DOMAIN cart_items : TRUE).price

\* OrdersView.calculate_total
RECURSIVE calculate_total(_)
calculate_total(cart_items) ==
    IF DOMAIN cart_items = {} THEN 0
    ELSE LET item == CHOOSE x \in DOMAIN cart_items : TRUE
         IN item.price + calculate_total(cart_items (-) One(item))

\* Order.objects.create(user=..., status=False, total=..., date=...)
NewOrder(u, total) ==
    [user |-> u, total |-> total, status |-> FALSE, delivery_crew |-> Null]

\* the lowest free request slot takes the next OrdersView.post
FreeSlot(r) ==
    /\ reqs[r].pc = "idle"
    /\ \A s \in ReqIds : s < r => reqs[s].pc # "idle"

\* OrdersView.post, lines 289-291: read the cart, total it, insert the Order
OrdersView_post_begin(r, u) ==
    /\ FreeSlot(r)
    /\ LET cart_items == CartOf(u)
           total == calculate_total(cart_items)
       IN /\ orders' = orders @@ (nextOrderId :> NewOrder(u, total))
          /\ reqs' = [reqs EXCEPT ![r] =
                        [pc |-> "values", user |-> u, order |-> nextOrderId,
                         values |-> EmptyBag, made |-> EmptyBag]]
    /\ nextOrderId' = nextOrderId + 1
    /\ UNCHANGED <<menu, cart, orderitems>>

\* line 292: cart_items.values() runs the query again
OrdersView_post_values(r) ==
    /\ reqs[r].pc = "values"
    /\ reqs' = [reqs EXCEPT ![r].pc = "items",
                            ![r].values = CartOf(reqs[r].user)]
    /\ UNCHANGED <<menu, cart, orders, nextOrderId, orderitems>>

\* the rows of the loop that have not had their turn
Pending(r) == reqs[r].values (-) reqs[r].made

\* OrderItem.objects.create(order=order, menuitem=menuitem, quantity=...)
NewOrderItem(pk, i) ==
    [order |-> pk, menuitem |-> i.menuitem, quantity |-> i.quantity]

\* lines 293-295, one turn of the loop: Http404 from get_object_or_404, or
\* a refused insert when the Order row is gone, ends the request
OrdersView_post_item(r) ==
    /\ reqs[r].pc = "items"
    /\ \E i \in DOMAIN Pending(r) :
         IF i.menuitem \notin DOMAIN menu \/ reqs[r].order \notin DOMAIN orders
         THEN /\ reqs' = [reqs EXCEPT ![r] = IdleReq]
              /\ UNCHANGED orderitems
         ELSE /\ orderitems' = orderitems (+) One(NewOrderItem(reqs[r].order, i))
              /\ reqs' = [reqs EXCEPT ![r].made = @ (+) One(i)]
    /\ UNCHANGED <<menu, cart, orders, nextOrderId>>

\* lines 296-297: cart_items.delete() and the 201 response
OrdersView_post_finish(r) ==
    /\ reqs[r].pc = "items"
    /\ DOMAIN Pending(r) = {}
    /\ cart' = CartWithout(cart, reqs[r].user)
    /\ reqs' = [reqs EXCEPT ![r] = IdleReq]
    /\ UNCHANGED <<menu, orders, nextOrderId, orderitems>>

\* get_queryset with the Delivery Crew test moved into the first condition
OrdersView_get_queryset_crew_all(u) ==
    IF IsManager(u) \/ is_superuser(u) \/ IsDeliveryCrew(u)
    THEN DOMAIN orders
    ELSE {o \in DOMAIN orders : orders[o].user = u}

\* OrdersView.get_queryset
OrdersView_get_queryset(u) ==
    IF IsManager(u) \/ is_superuser(u)
    THEN DOMAIN orders
    ELSE IF IsDeliveryCrew(u)
    THEN {o \in DOMAIN orders : orders[o].delivery_crew = u}
    ELSE {o \in DOMAIN orders : orders[o].user = u}

\* ----------------------------------------------------------- single order
\* get_permissions with the owner's branch taken for every method
SingleOrderView_get_permissions_owner(u, method, pk) ==
    IF u = orders[pk].user
    THEN IsAuthenticated(u)
    ELSE IF method = "PUT" \/ method = "DELETE"
    THEN IsAuthenticated(u) /\ (IsManager(u) \/ IsAdminUser(u))
    ELSE IsAuthenticated(u) /\ (IsDeliveryCrew(u) \/ IsManager(u) \/ IsAdminUser(u))

\* SingleOrderView.get_permissions, for an order that exists
SingleOrderView_get_permissions(u, method, pk) ==
    IF u = orders[pk].user /\ method = "GET"
    THEN IsAuthenticated(u)
    ELSE IF method = "PUT" \/ method = "DELETE"
    THEN IsAuthenticated(u) /\ (IsManager(u) \/ IsAdminUser(u))
    ELSE IsAuthenticated(u) /\ (IsDeliveryCrew(u) \/ IsManager(u) \/ IsAdminUser(u))

\* the status SingleOrderView answers with: Order.objects.get raises
\* DoesNotExist, which nothing catches
SingleOrderView_status(u, method, pk) ==
    IF pk \notin DOMAIN orders THEN 500
    ELSE IF ~ SingleOrderView_get_permissions(u, method, pk) THEN 403
    ELSE IF method = "PUT" THEN 201
    ELSE 200

\* SingleOrderSerializer: unit_price has source='menuitem.price', and
\* get_price multiplies by the same field
SingleOrderSerializer(items, obj) ==
    [quantity |-> obj.quantity, menuitem |-> obj.menuitem,
     unit_price |-> items[obj.menuitem],
     price |-> obj.quantity * items[obj.menuitem]]

\* SingleOrderView GET: the serialized rows of get_queryset, over given
\* MenuItem and OrderItem tables
OrderDetail(items, rows, pk) ==
    LET mine == ItemFilter(rows, pk)
        Copies(out) ==
            LET Same(row) == SingleOrderSerializer(items, row) = out
            IN BagCardinality(KeepRows(mine, Same))
    IN [out \in {SingleOrderSerializer(items, row) : row \in DOMAIN mine} |->
          Copies(out)]

SingleOrderView_get(pk) == OrderDetail(menu, orderitems, pk)

\* a one-way 'mark delivered': order.status = True
ToggleStatus_deliver(table, pk) ==
    [table EXCEPT ![pk].status = TRUE]

\* order.status = not order.status; order.save()
ToggleStatus(table, pk) ==
    [table EXCEPT ![pk].status = ~ table[pk].status]

\* SingleOrderView.patch
SingleOrderView_patch(u, pk) ==
    /\ IF SingleOrderView_status(u, "PATCH", pk) = 200
       THEN orders' = ToggleStatus(orders, pk)
       ELSE UNCHANGED orders
    /\ UNCHANGED <<menu, cart, nextOrderId, orderitems, reqs>>

\* SingleOrderView.put
SingleOrderView_put(u, pk, crew) ==
    /\ IF SingleOrderView_status(u, "PUT", pk) = 201
       THEN orders' = [orders EXCEPT ![pk].delivery_crew = crew]
       ELSE UNCHANGED orders
    /\ UNCHANGED <<menu, cart, nextOrderId, orderitems, reqs>>

\* SingleOrderView.delete; the OrderItem rows go with their Order
SingleOrderView_delete(u, pk) ==
    /\ IF SingleOrderView_status(u, "DELETE", pk) = 200
       THEN /\ orders' = [o \in DOMAIN orders \ {pk} |-> orders[o]]
            /\ LET Other(row) == row.order # pk
               IN orderitems' = KeepRows(orderitems, Other)
       ELSE UNCHANGED <<orders, orderitems>>
    /\ UNCHANGED <<menu, cart, nextOrderId, reqs>>

\* ------------------------------------------------------------ next-state
Steps ==
    \/ \E r \in ReqIds : OrdersView_post_values(r)
    \/ \E r \in ReqIds : OrdersView_post_item(r)
    \/ \E r \in ReqIds : OrdersView_post_finish(r)

NoneInFlight == \A r \in ReqIds : reqs[r].pc = "idle"

\* placement under full concurrency: one customer; the cart and the menu
\* change while requests are in flight
PlaceHandlers ==
    \/ \E u \in {"a1", "c2"}, m \in MenuIds : SingleItemView_destroy(u, m)
    \/ \E m \in MenuIds, q \in Quantities : Customer_Cart_post("c1", m, q)
    \/ \E m \in MenuIds \cup {0} : Customer_Cart_delete("c1", m)
    \/ \E r \in ReqIds : nextOrderId <= MaxOrders /\ OrdersView_post_begin(r, "c1")

Next == PlaceHandlers \/ Steps

Spec == Init /\ [][Next]_vars

\* OrdersView.post racing only itself: the cart is filled before the
\* requests start
RaceHandlers ==
    \/ \E m \in MenuIds, q \in Quantities :
          NoneInFlight /\ Customer_Cart_post("c1", m, q)
    \/ \E m \in MenuIds \cup {0} :
          NoneInFlight /\ Customer_Cart_delete("c1", m)
    \/ \E r \in ReqIds : nextOrderId <= MaxOrders /\ OrdersView_post_begin(r, "c1")

NextRace == RaceHandlers \/ Steps

SpecRace == Init /\ [][NextRace]_vars

\* a server that handles one request at a time; two shoppers
SeqHandlers ==
    \/ \E m \in MenuIds, p \in Prices : SingleItemView_update("a1", m, p)
    \/ \E u \in {"a1", "c2"}, m \in MenuIds : SingleItemView_destroy(u, m)
    \/ \E m \in MenuIds, q \in Quantities : Customer_Cart_post("c1", m, q)
    \/ Customer_Cart_post("d1", 1, 1)
    \/ \E u \in {"c1", "d1"}, m \in MenuIds \cup {0} : Customer_Cart_delete(u, m)
    \/ \E u \in {"c1", "d1"} : nextOrderId <= MaxSeqOrders /\ OrdersView_post_begin(1, u)

NextSeq == (NoneInFlight /\ SeqHandlers) \/ Steps

SpecSeq == Init /\ [][NextSeq]_vars

\* the single-order handlers, every user calling them, between the calls of
\* OrdersView.post
AccessHandlers ==
    \/ Customer_Cart_post("c1", 1, 1)
    \/ \E u \in {"c1", "d1"} : nextOrderId <= MaxAccessOrders /\ OrdersView_post_begin(1, u)
    \/ \E u \in Users, pk \in OrderIds : SingleOrderView_patch(u, pk)
    \/ \E u \in Users, pk \in OrderIds, crew \in {"d1", "c2"} : SingleOrderView_put(u, pk, crew)
    \/ \E u \in Users, pk \in OrderIds : SingleOrderView_delete(u, pk)

NextAccess == (NoneInFlight /\ AccessHandlers) \/ Steps

SpecAccess == Init /\ [][NextAccess]_vars

\* one OrdersView.post at a time while its customer keeps changing the cart
CartHandlers ==
    \/ \E m \in MenuIds, q \in Quantities : Customer_Cart_post("c1", m, q)
    \/ \E m \in MenuIds \cup {0} : Customer_Cart_delete("c1", m)
    \/ nextOrderId <= MaxSeqOrders /\ OrdersView_post_begin(1, "c1")

NextCart == CartHandlers \/ Steps

SpecCart == Init /\ [][NextCart]_vars

\* ------------------------------------------------- steps of OrdersView.post
\* request r takes a step
PostStep(r) == reqs'[r] # reqs[r]

\* request r sends its 201
FinishStep(r) ==
    reqs[r].pc = "items" /\ reqs'[r].pc = "idle" /\ DOMAIN Pending(r) = {}

\* request r ends in an error with a row of its loop still to do
FailStep(r) ==
    reqs[r].pc = "items" /\ reqs'[r].pc = "idle" /\ DOMAIN Pending(r) # {}

\* ------------------------------------------------------------------ claims
\* C1: OrdersView.post is all-or-nothing: when the creation of an OrderItem
\* fails partway, the Order the call inserted and the OrderItems it inserted
\* are gone after the failing step, and no step of the call up to there has
\* touched the cart.
C1_AllOrNothing ==
    [][\A r \in ReqIds, pk \in 1..MaxOrders :
          /\ (PostStep(r) /\ ~ FinishStep(r)) => cart' = cart
          /\ (FailStep(r) /\ reqs[r].order = pk) =>
                /\ pk \notin DOMAIN orders'
                /\ DOMAIN ItemFilter(orderitems', pk) = {}]_vars

\* requests r1 and r2 are two calls of one user, both in flight
Concurrent(r1, r2) ==
    /\ r1 # r2
    /\ reqs[r1].pc # "idle"
    /\ reqs[r2].pc # "idle"
    /\ reqs[r1].user = reqs[r2].user

\* the row is in the Order with this key, as an OrderItem
Ordered(rows, pk, row) ==
    \E i \in DOMAIN ItemFilter(rows, pk) :
        i.menuitem = row.menuitem /\ i.quantity = row.quantity

\* C2: two concurrent OrdersView.post calls of one customer never copy the
\* same cart line into two Orders, and the call that clears the cart leaves
\* an Order that holds every line it cleared.
C2_OneOrderPerCart ==
    /\ [](\A r1, r2 \in ReqIds :
            Concurrent(r1, r2) =>
                DOMAIN reqs[r1].made \cap DOMAIN reqs[r2].made = {})
    /\ [][\A r \in ReqIds, pk \in 1..MaxOrders :
            (FinishStep(r) /\ reqs[r].order = pk) =>
                /\ pk \in DOMAIN orders'
                /\ \A row \in DOMAIN CartFilter(cart, reqs[r].user) :
                      Ordered(orderitems', pk, row)]_vars

\* the sum over the rows of a cart of quantity times unit price
RECURSIVE SumLines(_)
SumLines(rows) ==
    IF DOMAIN rows = {} THEN 0
    ELSE LET row == CHOOSE x \in DOMAIN rows : TRUE
         IN row.quantity * row.unit_price + SumLines(rows (-) One(row))

\* C3: when OrdersView.post answers 201 for a non-empty cart, the total of
\* the Order it created is the sum over the customer's cart lines of
\* quantity times unit price; and a line enters the cart with the menu
\* item's current price as unit price and quantity times that as price.
C3_OrderTotal ==
    [][/\ \A r \in ReqIds, pk \in DOMAIN orders :
            (/\ FinishStep(r)
             /\ reqs[r].order = pk
             /\ DOMAIN CartFilter(cart, reqs[r].user) # {}) =>
                orders[pk].total = SumLines(CartFilter(cart, reqs[r].user))
       /\ \A row \in DOMAIN cart' \ DOMAIN cart :
            /\ row.unit_price = menu[row.menuitem]
            /\ row.price = row.quantity * menu[row.menuitem]]_vars

\* a request about to answer 201 for a cart of two lines, one of them added
\* at a price the menu no longer shows
C3_Witness ==
    \E r \in ReqIds :
        /\ reqs[r].pc = "items"
        /\ DOMAIN Pending(r) = {}
        /\ reqs[r].order \in DOMAIN orders
        /\ Cardinality(DOMAIN CartOf(reqs[r].user)) = 2
        /\ \E row \in DOMAIN CartOf(reqs[r].user) :
              /\ row.menuitem \in DOMAIN menu
              /\ row.unit_price # menu[row.menuitem]
              /\ row.quantity = 2

\* the (menu item, quantity) pairs of a table, with their multiplicities
Lines(rows) ==
    LET Line(row) == [menuitem |-> row.menuitem, quantity |-> row.quantity]
        Copies(l) ==
            LET Same(row) == Line(row) = l
            IN BagCardinality(KeepRows(rows, Same))
    IN [l \in {Line(row) : row \in DOMAIN rows} |-> Copies(l)]

\* C4: when OrdersView.post answers 201, its Order has status False and no
\* delivery crew, the OrderItems of the Order are the lines the cart held,
\* one for one with the same menu item and quantity, the customer's cart is
\* empty and every other user's cart is as it was.
C4_PlaceOrderEffect ==
    [][\A r \in ReqIds, pk \in 1..MaxOrders :
          (FinishStep(r) /\ reqs[r].order = pk) =>
              /\ pk \in DOMAIN orders'
              /\ orders'[pk].status = FALSE
              /\ orders'[pk].delivery_crew = Null
              /\ orders'[pk].user = reqs[r].user
              /\ Lines(ItemFilter(orderitems', pk)) =
                    Lines(CartFilter(cart, reqs[r].user))
              /\ DOMAIN CartFilter(cart', reqs[r].user) = {}
              /\ \A v \in Users \ {reqs[r].user} :
                    CartFilter(cart', v) = CartFilter(cart, v)]_vars

\* an Order of two OrderItems has been placed, its owner's cart is empty and
\* another user's cart is not
C4_Witness ==
    /\ NoneInFlight
    /\ \E pk \in DOMAIN orders :
          /\ BagCardinality(ItemsOf(pk)) = 2
          /\ DOMAIN CartOf(orders[pk].user) = {}
          /\ \E v \in Users \ {orders[pk].user} : DOMAIN CartOf(v) # {}

\* C9: what GET on an order reports for its OrderItems (unit price, line
\* price) is not changed by a later change of a menu item's price.
C9_SnapshotPrice ==
    [][\A pk \in DOMAIN orders :
          (NoneInFlight /\ menu' # menu /\ DOMAIN menu' = DOMAIN menu) =>
              OrderDetail(menu', orderitems', pk) =
                  OrderDetail(menu, orderitems, pk)]_vars

\* C10: the cart never holds two lines with the same user and menu item.
C10_OneLinePerItem ==
    \A l1, l2 \in DOMAIN cart :
        (l1.user = l2.user /\ l1.menuitem = l2.menuitem) =>
            (l1 = l2 /\ cart[l1] = 1)

\* the cart holds a line of a user whose POST for the same menu item, with
\* another quantity, is refused
C10_Witness ==
    \E l \in DOMAIN cart, q \in Quantities :
        /\ q # l.quantity
        /\ Customer_Cart_post_status(l.user, l.menuitem, q) = 200

\* the roles of the access matrix
Privileged(u) == IsManager(u) \/ IsAdminUser(u)

Customer(u) == ~ Privileged(u) /\ ~ IsDeliveryCrew(u)

\* C5: GET on an order is answered only for the order's owner, for the
\* Delivery Crew user the order is assigned to, and for a Manager or Admin;
\* a Customer who does not own the order and a Delivery Crew user the order
\* is not assigned to get 403.
C5_DetailAccess ==
    \A u \in Users, pk \in DOMAIN orders :
        LET granted == SingleOrderView_status(u, "GET", pk) = 200
            entitled == \/ u = orders[pk].user
                        \/ IsDeliveryCrew(u) /\ orders[pk].delivery_crew = u
                        \/ Privileged(u)
        IN /\ granted => entitled
           /\ ~ entitled => SingleOrderView_status(u, "GET", pk) = 403

\* C6: PUT and DELETE on an order are answered with success exactly for a
\* Manager or Admin, and with 403 for every other user, owner or not.  A
\* step that changes the Order or OrderItem table is no PUT or DELETE of
\* such a user; when it is a PUT it leaves delivery_crew at the crew the
\* PUT names, when it is a DELETE the order is gone; and delivery_crew
\* changes or an order disappears only in a Manager's or Admin's PUT or
\* DELETE.
C6_AssignAndDelete ==
    /\ [](\A u \in Users, pk \in DOMAIN orders :
            /\ Privileged(u) => /\ SingleOrderView_status(u, "PUT", pk) = 201
                                /\ SingleOrderView_status(u, "DELETE", pk) = 200
            /\ ~ Privileged(u) => /\ SingleOrderView_status(u, "PUT", pk) = 403
                                  /\ SingleOrderView_status(u, "DELETE", pk) = 403)
    /\ [][(orders' = orders /\ orderitems' = orderitems) \/
          \A pk \in DOMAIN orders :
            /\ \A u \in Users, crew \in Users :
                  SingleOrderView_put(u, pk, crew) =>
                      Privileged(u) /\ orders'[pk].delivery_crew = crew
            /\ \A u \in Users :
                  SingleOrderView_delete(u, pk) =>
                      Privileged(u) /\ pk \notin DOMAIN orders'
            /\ pk \notin DOMAIN orders' =>
                  \E u \in Users : Privileged(u) /\ SingleOrderView_delete(u, pk)
            /\ (pk \in DOMAIN orders' /\
                   orders'[pk].delivery_crew # orders[pk].delivery_crew) =>
                  \E u \in Users, crew \in Users :
                      Privileged(u) /\ SingleOrderView_put(u, pk, crew)]_vars

\* an order of a customer carries the crew a Manager's PUT gave it, the
\* owner's own PUT and DELETE are refused, and an earlier order is deleted
C6_Witness ==
    /\ \E pk \in DOMAIN orders :
          /\ orders[pk].user = "c1"
          /\ orders[pk].delivery_crew = "d1"
          /\ SingleOrderView_status("c1", "PUT", pk) = 403
          /\ SingleOrderView_status("c1", "DELETE", pk) = 403
          /\ SingleOrderView_status("d1", "PUT", pk) = 403
    /\ \E pk \in 1..(nextOrderId - 1) : pk \notin DOMAIN orders

\* C7: the order list is every order for a Manager or Admin, the orders
\* assigned to the requester for a Delivery Crew user, and the orders owned
\* by the requester for a Customer; a Customer or a Delivery Crew user is
\* never shown an order that is neither theirs nor assigned to them.
C7_ListOrders ==
    \A u \in Users :
        /\ Privileged(u) => OrdersView_get_queryset(u) = DOMAIN orders
        /\ (IsDeliveryCrew(u) /\ ~ Privileged(u)) =>
              OrdersView_get_queryset(u) =
                  {o \in DOMAIN orders : orders[o].delivery_crew = u}
        /\ Customer(u) =>
              OrdersView_get_queryset(u) =
                  {o \in DOMAIN orders : orders[o].user = u}
        /\ ~ Privileged(u) =>
              \A o \in OrdersView_get_queryset(u) :
                  orders[o].user = u \/ orders[o].delivery_crew = u

\* two orders: a customer's, assigned to the crew user, and the crew user's
\* own, assigned to nobody; the lists of the three roles differ
C7_Witness ==
    \E o1, o2 \in DOMAIN orders :
        /\ orders[o1].user = "c1" /\ orders[o1].delivery_crew = "d1"
        /\ orders[o2].user = "d1" /\ orders[o2].delivery_crew = Null
        /\ OrdersView_get_queryset("d1") = {o1}
        /\ OrdersView_get_queryset("c1") = {o1}
        /\ OrdersView_get_queryset("c2") = {}
        /\ OrdersView_get_queryset("m1") = {o1, o2}

\* C8: PATCH on an order flips its status whatever it is, so two PATCHes in
\* a row give the order table back; a PATCH that changes the Order table
\* changes the status of its order and nothing else.
C8_ToggleTwice ==
    /\ [](\A pk \in DOMAIN orders :
            /\ ToggleStatus(orders, pk)[pk].status = ~ orders[pk].status
            /\ ToggleStatus(ToggleStatus(orders, pk), pk) = orders)
    /\ [][orders' = orders \/
          \A u \in Users, pk \in DOMAIN orders :
            SingleOrderView_patch(u, pk) =>
                /\ DOMAIN orders' = DOMAIN orders
                /\ orders'[pk].status = ~ orders[pk].status
                /\ orders' = [orders EXCEPT ![pk].status = orders'[pk].status]]_vars

\* an order stands at Delivered: the next PATCH takes it back to Placed
C8_Witness ==
    \E pk \in DOMAIN orders :
        /\ orders[pk].status = TRUE
        /\ SingleOrderView_status("d1", "PATCH", pk) = 200

\* C11: GET, PATCH, PUT and DELETE on /orders/<pk> with a pk that resolves to
\* no order, never created or already deleted, are each answered with 404
\* and with no other error, whoever calls, and such a call changes no
\* order, order item or cart line.
C11_MissingOrderNotFound ==
    /\ [](\A u \in Users, pk \in OrderIds \ DOMAIN orders :
            \A method \in {"GET", "PATCH", "PUT", "DELETE"} :
                SingleOrderView_status(u, method, pk) = 404)
    /\ [][\A u \in Users, pk \in OrderIds \ DOMAIN orders :
            (\/ SingleOrderView_patch(u, pk)
             \/ SingleOrderView_delete(u, pk)
             \/ \E crew \in Users : SingleOrderView_put(u, pk, crew)) =>
                /\ orders' = orders
                /\ orderitems' = orderitems
                /\ cart' = cart]_vars

\* the sum of the price column over the rows of a cart
RECURSIVE SumPrices(_)
SumPrices(rows) ==
    IF DOMAIN rows = {} THEN 0
    ELSE LET row == CHOOSE x \in DOMAIN rows : TRUE
         IN row.price + SumPrices(rows (-) One(row))

\* C12: with Customer_Cart.post and Customer_Cart.delete of the same customer
\* interleaved with the customer's OrdersView.post, when the post answers
\* 201 every cart line its cart_items.delete() removes has an OrderItem of
\* the created order for the same menu item, and the total of the order is
\* the sum of the cart prices of the lines that became its OrderItems.
C12_InterleavedCart ==
    [][\A r \in ReqIds, pk \in DOMAIN orders :
          (FinishStep(r) /\ reqs[r].order = pk) =>
              /\ \A row \in DOMAIN CartFilter(cart, reqs[r].user) :
                    \E item \in DOMAIN ItemFilter(orderitems, pk) :
                        item.menuitem = row.menuitem
              /\ orders[pk].total = SumPrices(reqs[r].made)]_vars

====
